---- MODULE Spec2Model ----
(***************************************************************************)
(* pino-transport-rotating: the transport built by                        *)
(* pinoTransportRotatingFile (source -> prettyStream -> rotatingStream),   *)
(* its 'rotated' handler with compressFile, and close().                   *)
(*                                                                         *)
(* The repository holds three versions of the transport:                   *)
(*   "part_001"  src/unnamed/part_001  (boolean compress, own gzip step)   *)
(*   "part_000"  src/unnamed/part_000  (compress handed to the library)    *)
(*   "index"     src/src/index.ts      (oldest, no try/catch in transform) *)
(* node:stream, pino-abstract-transport and rotating-file-stream are       *)
(* libraries; their steps are modelled by their documented behaviour at    *)
(* the place where the repository calls them.                              *)
(***************************************************************************)
EXTENDS Integers, Sequences, FiniteSets, TLC

\* ------------------------------------------------------------------ bounds
MaxRecs == 2     \* records submitted in a run
MaxNotif == 2    \* 'rotated' notifications delivered in a run
MaxFail == 1     \* I/O operations that are made to fail in a run
MaxTime == 2     \* rotation times (seconds) the library may pass
RsHighWater == 1      \* chunks buffered in rotatingStream at which write() returns false
PrettyHighWater == 2  \* chunks prettyStream holds before it stops transforming
MaxCalls == 2    \* calls of the file name function in a run of NameSpec
MaxIndex == 2    \* rotation indexes the library passes to the file name function
MaxSized == 3    \* records submitted in a run with a size limit the run reaches
RecSize == 40    \* bytes of one rendered record

\* --------------------------------------------------------------- constants
Omitted == "omitted"
Impls == {"part_001", "part_000", "index"}
OptBools == {Omitted, "true", "false"}
OptDirs == {Omitted, "", "logs"}
NoTime == 0 - 1                      \* the library's null time
Times == 1 .. MaxTime
MissingDirError == "Missing required option: dir"
TransportError == "Failed to write log in transport"
DefaultSize == 100 * 1024            \* `size = '100K'`
SizeLimits == {60, 100}              \* size options (bytes) that a short run reaches

\* ------------------------------------------------------------------ naming
\* num.toString().padStart(2, '0')
pad(num) == IF num < 10 THEN "0" \o ToString(num) ELSE ToString(num)

\* path.join(dir, name) for a plain directory name
join(dir, name) == dir \o "/" \o name

\* Date fields of a time given in seconds after 2024-01-01T00:00:00
DayOf(time) == 1 + (time \div 86400)
HourOf(time) == (time \div 3600) % 24
MinuteOf(time) == (time \div 60) % 60
SecondOf(time) == time % 60

\* toISOString().replace(/[-:T]/g, '').split('.')[0]
Timestamp(time) ==
  "202401" \o pad(DayOf(time)) \o pad(HourOf(time)) \o pad(MinuteOf(time))
    \o pad(SecondOf(time))

\* `${getFullYear()}-${pad(getMonth() + 1)}-${pad(getDate())}`
DateToken(time) == "2024-" \o pad(1) \o "-" \o pad(DayOf(time))

\* part_001: generator(time, dir, filename); the index is not a parameter
generator001(time, dir, filename) ==
  IF time = NoTime THEN join(dir, filename \o ".log")
  ELSE join(dir, filename \o "-" \o Timestamp(time) \o ".log")

\* part_000: generator(time, index, dir, filename)
generator000(time, index, dir, filename) ==
  IF time = NoTime THEN join(dir, filename \o ".log")
  ELSE join(dir, filename \o "-" \o DateToken(time) \o "." \o ToString(index) \o ".log")

\* index.ts: the closure generator(time, index) over dir and filename
generatorIndex(time, index, dir, filename) ==
  IF time = NoTime THEN join(dir, "app.log")
  ELSE join(dir, filename \o "-" \o DateToken(time) \o "." \o ToString(index) \o ".log")

\* The file name function handed to createStream by each version
generator(impl, time, index, dir, filename) ==
  CASE impl = "part_001" -> generator001(time, dir, filename)
    [] impl = "part_000" -> generator000(time, index, dir, filename)
    [] OTHER -> generatorIndex(time, index, dir, filename)

\* `${rotatedFile}.gz`
GzOf(path) == path \o ".gz"

LogPaths ==
  {generator(i, t, x, "logs", "app") :
     i \in Impls, t \in {NoTime} \cup Times, x \in 1 .. MaxIndex}
AllPaths == LogPaths \cup {GzOf(p) : p \in LogPaths}

\* ----------------------------------------------------------------- content
NoFile == [kind |-> "none", data |-> <<>>]
EmptyFile == [kind |-> "file", data |-> <<>>]
FileOf(data) == [kind |-> "file", data |-> data]

\* pretty(logMessage): the rendered text of a record
Pretty(rec) == [t |-> "pretty", id |-> rec.id]

\* createGzip(): header, one deflated block per line, trailer with the length
Gzip(data) ==
  <<[t |-> "gzhead", id |-> 0]>>
    \o [i \in 1 .. Len(data) |-> [t |-> "deflated", id |-> data[i].id]]
    \o <<[t |-> "gztrail", id |-> Len(data)]>>

\* What a pipeline that failed after n chunks leaves in the destination
Partial(data, n) == SubSeq(Gzip(data), 1, n)

\* ------------------------------------------------------------------- state
VARIABLES
  phase,            \* "init" | "built" | "failed": the call of pinoTransportRotatingFile
  opts,             \* the options as destructured (impl names the version)
  error,            \* the message of the error the constructor threw, or ""
  registered,       \* the 'rotated' handler is registered
  src,              \* the source stream made by build()
  pretty,           \* prettyStream
  rs,               \* rotatingStream
  fs,               \* the file system: path -> file
  clock,            \* the time of the last rotation
  rotated,          \* the 'rotated' events emitted so far: <<[path, content]>>
  handlers,         \* the activations of the 'rotated' handler
  compressedFiles,  \* the Set compressedFiles
  closeState,       \* "idle" | "pending" | "resolved": the promise of close()
  diag,             \* what was written with console.warn / console.error
  uncaught,         \* exceptions and rejections nothing caught
  nextRec,          \* the id of the next record submitted
  fails,            \* I/O operations that failed so far
  nameCfg,          \* the version, dir and filename the file name function is called for
  named,            \* the calls of the file name function: {[time, index, path]}
  sizeLimit         \* the size option in bytes

vars ==
  <<phase, opts, error, registered, src, pretty, rs, fs, clock, rotated, handlers,
    compressedFiles, closeState, diag, uncaught, nextRec, fails, nameCfg, named,
    sizeLimit>>

nameVars == <<nameCfg, named>>
pipeVars == <<src, pretty, rs, closeState>>
compVars == <<handlers, compressedFiles>>
ctorVars == <<phase, opts, error, registered>>

NoStream == [state |-> "none", ended |-> FALSE, buf |-> <<>>, paused |-> FALSE]
NoRs == [state |-> "none", buf |-> <<>>, handle |-> "none", err |-> "none"]

\* The state before pinoTransportRotatingFile is called
ProgramInit ==
  /\ phase = "init"
  /\ opts = [impl |-> "part_001", enabled |-> Omitted, dir |-> Omitted,
             filename |-> "app", compress |-> Omitted]
  /\ error = ""
  /\ registered = FALSE
  /\ src = NoStream
  /\ pretty = NoStream
  /\ rs = NoRs
  /\ fs = [p \in AllPaths |-> NoFile]
  /\ clock = 1
  /\ rotated = <<>>
  /\ handlers = <<>>
  /\ compressedFiles = {}
  /\ closeState = "idle"
  /\ diag = {}
  /\ uncaught = {}
  /\ nextRec = 1
  /\ fails = 0

Init ==
  /\ ProgramInit
  /\ nameCfg = [impl |-> "part_001", dir |-> "logs", filename |-> "app"]
  /\ named = {}
  /\ sizeLimit = DefaultSize

\* ------------------------------------------------------------ construction
\* A destructuring default: `name = dflt`
Default(value, dflt) == IF value = Omitted THEN dflt ELSE value

\* `dir` (part_001, part_000: no default) and `dir = ''` (index.ts)
DirOption(impl, dir) == IF impl = "index" THEN Default(dir, "") ELSE dir

\* `compress = true` (part_001); the other versions hand it to the library
CompressOption(impl, compress) ==
  IF impl = "part_001" THEN Default(compress, "true") ELSE "library"

\* Mutant of DirMissing: `dir === undefined`, an empty string passes
DirMissingUndefinedOnly(dir) == dir = Omitted

\* `!dir`: undefined and '' are both falsy
DirMissing(dir) == dir = Omitted \/ dir = ""

\* Mutant of ConstructOutcome: the dir check comes before the enabled check
ConstructOutcomeDirFirst(enabled, dir) ==
  IF dir = Omitted \/ dir = "" THEN "missing dir"
  ELSE IF enabled = "false" THEN "disabled"
  ELSE "enabled"

\* The order of the checks on the destructured options:
\* `if (!enabled) return build(...)`, then `if (!dir) throw ...`
ConstructOutcome(enabled, dir) ==
  IF enabled = "false" THEN "disabled"
  ELSE IF DirMissing(dir) THEN "missing dir"
  ELSE "enabled"

\* `if (compress)` guarding rotatingStream.on('rotated', ...)
CompressOn(impl, compress) == impl = "part_001" /\ compress = "true"

\* The path of the active file: generator(null)
Base == generator(opts.impl, NoTime, 1, opts.dir, opts.filename)

\* No exception has escaped into the process
Alive == uncaught = {}

OpenStream == [state |-> "open", ended |-> FALSE, buf |-> <<>>, paused |-> FALSE]

\* pinoTransportRotatingFile(options)
Construct(impl, enabled, dir, compress) ==
  /\ phase = "init"
  /\ opts' = [impl |-> impl, enabled |-> Default(enabled, "true"),
              dir |-> DirOption(impl, dir), filename |-> "app",
              compress |-> CompressOption(impl, compress)]
  /\ LET outcome == ConstructOutcome(opts'.enabled, opts'.dir) IN
       CASE outcome = "disabled" ->
              \* build((source) => source, {close() {}})
              /\ phase' = "built"
              /\ src' = OpenStream
              /\ UNCHANGED <<error, registered, pretty, rs>>
         [] outcome = "missing dir" ->
              \* throw new Error('Missing required option: dir')
              /\ phase' = "failed"
              /\ error' = MissingDirError
              /\ UNCHANGED <<registered, src, pretty, rs>>
         [] OTHER ->
              \* createStream, on('rotated'), build(pipeline)
              /\ phase' = "built"
              /\ rs' = [state |-> "open", buf |-> <<>>, handle |-> "none", err |-> "none"]
              /\ registered' = CompressOn(impl, opts'.compress)
              /\ src' = OpenStream
              /\ pretty' = OpenStream
              /\ UNCHANGED error
  /\ UNCHANGED <<nameVars, sizeLimit, fs, clock, rotated, compVars, closeState, diag, uncaught, nextRec,
                 fails>>

\* The transport is enabled and its pipeline was built
Enabled == phase = "built" /\ rs.state # "none"

\* The records a run submits: one more when its size limit is within reach
RecLimit == IF sizeLimit = DefaultSize THEN MaxRecs ELSE MaxSized

\* A record is written to the transport
Submit(bad) ==
  /\ phase = "built" /\ Alive
  /\ src.state = "open" /\ ~src.ended
  /\ nextRec <= RecLimit
  /\ src' = [src EXCEPT !.buf = Append(@, [id |-> nextRec, bad |-> bad])]
  /\ nextRec' = nextRec + 1
  /\ UNCHANGED <<ctorVars, nameVars, sizeLimit, pretty, rs, fs, clock, rotated, compVars, closeState, diag,
                 uncaught, fails>>

\* The logger ends the transport: source.end()
SourceEnd ==
  /\ phase = "built" /\ Alive
  /\ src.state = "open" /\ ~src.ended
  /\ src' = [src EXCEPT !.ended = TRUE]
  /\ UNCHANGED <<ctorVars, nameVars, sizeLimit, pretty, rs, fs, clock, rotated, compVars, closeState, diag,
                 uncaught, nextRec, fails>>

\* ------------------------------------------------------------------- close
\* Mutant of CloseCall: `rotatingStream.end(); resolve()`, the promise does not
\* wait for the callback of end()
CloseCallResolvesAtOnce ==
  /\ rs' = [rs EXCEPT !.state = IF @ = "open" THEN "ending" ELSE @]
  /\ closeState' = "resolved"

\* close(): rotatingStream.end(() => resolve()). The callback of end() runs when
\* the stream has finished, and also when it has errored or is destroyed.
CloseCall ==
  CASE rs.state = "open" ->
         /\ rs' = [rs EXCEPT !.state = "ending"]
         /\ closeState' = "pending"
    [] rs.state = "ending" ->
         /\ closeState' = "pending"
         /\ UNCHANGED rs
    [] OTHER ->
         /\ closeState' = "resolved"
         /\ UNCHANGED rs

\* The disabled transport's close() {}
CloseDisabled ==
  /\ phase = "built" /\ rs.state = "none"
  /\ src.ended /\ src.state = "open"
  /\ src' = [src EXCEPT !.state = "closed"]
  /\ closeState' = "resolved"
  /\ UNCHANGED <<ctorVars, nameVars, sizeLimit, pretty, rs, fs, clock, rotated, compVars, diag, uncaught,
                 nextRec, fails>>

\* ---------------------------------------------------------------- pipeline
\* Mutant of Teardown: the error is logged and the pipeline goes on writing
TeardownLogsAndGoesOn(cause) ==
  /\ rs' = [rs EXCEPT !.err = cause]
  /\ diag' = diag \cup {[lvl |-> "error", msg |-> TransportError, about |-> cause]}
  /\ UNCHANGED <<src, pretty, closeState>>

\* Mutant of Teardown: close() had registered its resolve on 'finish' only, an
\* error leaves its promise as it is
TeardownLeavesClosePending(cause) ==
  /\ src' = [src EXCEPT !.state = IF @ = "closed" THEN @ ELSE "destroyed", !.buf = <<>>]
  /\ pretty' = [pretty EXCEPT !.state = "destroyed", !.buf = <<>>]
  /\ rs' = [rs EXCEPT !.state = "destroyed", !.buf = <<>>, !.err = cause]
  /\ closeState' = closeState
  /\ diag' = diag \cup {[lvl |-> "error", msg |-> TransportError, about |-> cause]}

\* pipeline(source, prettyStream, rotatingStream, cb) on an error of one of its
\* streams: every stream is destroyed and what it buffered is dropped, cb(err)
\* logs the error; destroying the source runs close(), whose end() callback is
\* then called with the error.
Teardown(cause) ==
  /\ src' = [src EXCEPT !.state = IF @ = "closed" THEN @ ELSE "destroyed", !.buf = <<>>]
  /\ pretty' = [pretty EXCEPT !.state = "destroyed", !.buf = <<>>]
  /\ rs' = [rs EXCEPT !.state = "destroyed", !.buf = <<>>, !.err = cause]
  /\ closeState' = "resolved"
  /\ diag' = diag \cup {[lvl |-> "error", msg |-> TransportError, about |-> cause]}

\* rotating-file-stream opens the active file
RsInit(ok) ==
  /\ Enabled /\ Alive
  /\ rs.state \in {"open", "ending"} /\ rs.handle = "none"
  /\ IF ok
       THEN /\ rs' = [rs EXCEPT !.handle = "open"]
            /\ fs' = [fs EXCEPT ![Base] = IF @.kind = "none" THEN EmptyFile ELSE @]
            /\ UNCHANGED <<src, pretty, closeState, diag, fails>>
       ELSE /\ fails < MaxFail
            /\ fails' = fails + 1
            /\ Teardown("fs")
            /\ UNCHANGED fs
  /\ UNCHANGED <<ctorVars, nameVars, sizeLimit, clock, rotated, compVars, uncaught, nextRec>>

\* The transform has a try/catch that hands the error to callback()
TransformCatches(impl) == impl # "index"

\* prettyStream.transform(chunk, encoding, callback) on the next line of the
\* source. While rotatingStream takes chunks the rendered chunk is written to it
\* at once; write() returns false when its buffer has reached the high water
\* mark, and prettyStream then holds what it renders until 'drain'.
Transform ==
  /\ Enabled /\ Alive
  /\ src.state = "open" /\ pretty.state = "open"
  /\ src.buf # <<>>
  /\ Len(pretty.buf) < PrettyHighWater
  /\ LET rec == Head(src.buf) IN
       IF ~rec.bad
         THEN \* callback(null, prettyLog)
              CASE pretty.paused ->
                     /\ src' = [src EXCEPT !.buf = Tail(@)]
                     /\ pretty' = [pretty EXCEPT !.buf = Append(@, Pretty(rec))]
                     /\ UNCHANGED <<rs, closeState, diag, uncaught>>
                [] ~pretty.paused /\ rs.state = "open" ->
                     /\ src' = [src EXCEPT !.buf = Tail(@)]
                     /\ rs' = [rs EXCEPT !.buf = Append(@, Pretty(rec))]
                     /\ pretty' = [pretty EXCEPT !.paused = Len(rs'.buf) >= RsHighWater]
                     /\ UNCHANGED <<closeState, diag, uncaught>>
                [] OTHER ->
                     \* write after end
                     /\ Teardown("write after end")
                     /\ UNCHANGED uncaught
         ELSE IF TransformCatches(opts.impl)
           THEN \* callback(error): the stream errors, the pipeline ends
                /\ Teardown("render")
                /\ UNCHANGED uncaught
           ELSE \* pretty(chunk) throws out of transform()
                /\ uncaught' = uncaught \cup {"transform"}
                /\ UNCHANGED <<src, pretty, rs, closeState, diag>>
  /\ UNCHANGED <<ctorVars, nameVars, sizeLimit, fs, clock, rotated, compVars, nextRec, fails>>

NewHandler(path, content) ==
  [path |-> path, content |-> content, pc |-> "stat", snap |-> <<>>,
   started |-> FALSE, piped |-> FALSE, res |-> "", at |-> 0]

\* `compressedFiles.has(rotatedFile)`: the handler returns at once
AlreadyCompressed(path) == path \in compressedFiles

\* emit('rotated', path): the listener runs up to its first await
Emit(path, content) ==
  /\ rotated' = Append(rotated, [path |-> path, content |-> content])
  /\ IF ~registered
       THEN UNCHANGED handlers
       ELSE IF AlreadyCompressed(path)
         THEN handlers' = Append(handlers,
                [NewHandler(path, content) EXCEPT !.pc = "done", !.res = "skipped",
                                                  !.at = nextRec])
         ELSE handlers' = Append(handlers, NewHandler(path, content))

\* The size of a file of rendered records
SizeOf(data) == Len(data) * RecSize

\* Mutant of SizeRotation: the size is checked before the write, and a chunk that
\* would pass the limit is written to the next file
SizeRotationBeforeWrite(before, chunk) ==
  [due |-> SizeOf(Append(before, chunk)) > sizeLimit, old |-> before, new |-> <<chunk>>]

\* rotating-file-stream's size rule: the chunk is written to the active file,
\* then the file's size is compared with the limit; a write is never split
SizeRotation(before, chunk) ==
  [due |-> SizeOf(Append(before, chunk)) >= sizeLimit,
   old |-> Append(before, chunk), new |-> <<>>]

\* The indexes for which the name of a file rotated at `time` is free
FreeIndexes(time) ==
  {i \in 1 .. MaxIndex :
     fs[generator(opts.impl, time, i, opts.dir, opts.filename)].kind = "none"}

\* The name the library finds for the file it finalizes: the first free one
FreeName(time) ==
  generator(opts.impl, time,
            CHOOSE i \in FreeIndexes(time) : \A j \in FreeIndexes(time) : i <= j,
            opts.dir, opts.filename)

\* Mutant of WriteReady: the handler compresses synchronously (gzipSync), a
\* write waits until no compression is running
WriteReadyAfterCompression ==
  /\ rs.state \in {"open", "ending"} /\ rs.handle = "open"
  /\ rs.buf # <<>>
  /\ \A h \in 1 .. Len(handlers) : handlers[h].pc = "done"

\* rotatingStream can write: it has a chunk buffered and its file is open. The
\* 'rotated' handler is async and its work is awaited I/O, it holds nothing
\* the write needs
WriteReady ==
  /\ rs.state \in {"open", "ending"} /\ rs.handle = "open"
  /\ rs.buf # <<>>

\* rotatingStream writes its next buffered chunk to the active file. When its
\* buffer empties and the stream was not ended it emits 'drain': prettyStream
\* resumes and writes what it holds, until write() returns false again. After
\* the write the library applies its size rule.
RsWrite(ok) ==
  /\ Enabled /\ Alive
  /\ WriteReady
  /\ LET rot == SizeRotation(fs[Base].data, Head(rs.buf))
         noName == rot.due /\ FreeIndexes(clock) = {}
     IN
       IF ok /\ ~noName
         THEN /\ IF rot.due
                   THEN \* the size limit is reached: the file is finalized
                        /\ fs' = [fs EXCEPT ![FreeName(clock)] = FileOf(rot.old),
                                            ![Base] = FileOf(rot.new)]
                        /\ Emit(FreeName(clock), rot.old)
                   ELSE /\ fs' = [fs EXCEPT ![Base] = FileOf(Append(@.data, Head(rs.buf)))]
                        /\ UNCHANGED <<rotated, handlers>>
              /\ LET drain == /\ Tail(rs.buf) = <<>>
                              /\ rs.state = "open"
                              /\ pretty.state = "open" /\ pretty.paused
                     k == IF Len(pretty.buf) < RsHighWater THEN Len(pretty.buf)
                          ELSE RsHighWater
                 IN IF drain
                      THEN /\ rs' = [rs EXCEPT !.buf = SubSeq(pretty.buf, 1, k)]
                           /\ pretty' = [pretty EXCEPT
                                           !.buf = SubSeq(@, k + 1, Len(@)),
                                           !.paused = k >= RsHighWater]
                      ELSE /\ rs' = [rs EXCEPT !.buf = Tail(@)]
                           /\ UNCHANGED pretty
              /\ UNCHANGED <<src, closeState, diag, fails>>
         ELSE \* the write is rejected, or no name is free for the finalized file
              /\ IF ok THEN UNCHANGED fails ELSE fails < MaxFail /\ fails' = fails + 1
              /\ Teardown("fs")
              /\ fs' = IF ok THEN [fs EXCEPT ![Base] = FileOf(Append(@.data, Head(rs.buf)))]
                       ELSE fs
              /\ UNCHANGED <<rotated, handlers>>
  /\ UNCHANGED <<ctorVars, nameVars, sizeLimit, clock, compressedFiles, uncaught, nextRec>>

\* The source has ended and was read to its end: it emits 'end' (the pipeline
\* ends prettyStream) and is destroyed (autoDestroy), which runs close()
SourceFinish ==
  /\ Enabled /\ Alive
  /\ src.state = "open" /\ src.ended /\ src.buf = <<>>
  /\ src' = [src EXCEPT !.state = "closed"]
  /\ pretty' = [pretty EXCEPT !.ended = TRUE]
  /\ CloseCall
  /\ UNCHANGED <<ctorVars, nameVars, sizeLimit, fs, clock, rotated, compVars, diag, uncaught, nextRec, fails>>

\* prettyStream has ended and was read to its end: the pipeline ends rotatingStream
PrettyEnd ==
  /\ Enabled /\ Alive
  /\ pretty.state = "open" /\ pretty.ended /\ pretty.buf = <<>>
  /\ pretty' = [pretty EXCEPT !.state = "closed"]
  /\ rs' = [rs EXCEPT !.state = IF @ = "open" THEN "ending" ELSE @]
  /\ UNCHANGED <<ctorVars, nameVars, sizeLimit, src, fs, clock, rotated, compVars, closeState, diag, uncaught,
                 nextRec, fails>>

\* Mutant of EndCallback: close() also awaits the compressions that are running
EndCallbackAwaitsCompression ==
  IF closeState = "pending" /\ \A h \in 1 .. Len(handlers) : handlers[h].pc = "done"
    THEN "resolved" ELSE closeState

\* `rotatingStream.end(() => resolve())`: the callback resolves the promise of a
\* close() that is pending, whatever the 'rotated' handlers are doing
EndCallback == IF closeState = "pending" THEN "resolved" ELSE closeState

\* rotatingStream's _final: everything was written, the handle is closed, the
\* stream finishes and the callbacks of end() run
RsFinal(ok) ==
  /\ Enabled /\ Alive
  /\ rs.state = "ending" /\ rs.buf = <<>> /\ rs.handle = "open"
  /\ IF ok
       THEN /\ rs' = [rs EXCEPT !.state = "finished", !.handle = "closed"]
            /\ closeState' = EndCallback
            /\ UNCHANGED <<src, pretty, diag, fails>>
       ELSE /\ fails < MaxFail
            /\ fails' = fails + 1
            /\ Teardown("fs")
  /\ UNCHANGED <<ctorVars, nameVars, sizeLimit, fs, clock, rotated, compVars, uncaught, nextRec>>

\* rotatingStream's _destroy closes the handle of a destroyed stream
RsDestroyClose ==
  /\ Enabled /\ Alive
  /\ rs.state = "destroyed" /\ rs.handle = "open"
  /\ rs' = [rs EXCEPT !.handle = "closed"]
  /\ UNCHANGED <<ctorVars, nameVars, sizeLimit, src, pretty, fs, clock, rotated, compVars, closeState, diag,
                 uncaught, nextRec, fails>>

\* --------------------------------------------------------------- rotation
\* rotating-file-stream rotates: the active file is finalized under the name
\* generator(time) when that name is free, a new active file is opened, and
\* 'rotated' is emitted with the finalized file's path
Rotate(time) ==
  /\ Enabled /\ Alive
  /\ rs.state \in {"open", "ending"} /\ rs.handle = "open"
  /\ Len(rotated) < MaxNotif
  /\ time >= clock
  /\ LET path == generator(opts.impl, time, 1, opts.dir, opts.filename) IN
       /\ fs[path].kind = "none"
       /\ fs' = [fs EXCEPT ![path] = fs[Base], ![Base] = EmptyFile]
       /\ Emit(path, fs[Base].data)
  /\ clock' = time
  /\ UNCHANGED <<ctorVars, nameVars, sizeLimit, pipeVars, compressedFiles, diag, uncaught, nextRec, fails>>

\* A second 'rotated' event for a path that was already notified
DuplicateRotated(i) ==
  /\ Enabled /\ Alive /\ registered
  /\ i \in 1 .. Len(rotated)
  /\ Len(rotated) < MaxNotif
  /\ Emit(rotated[i].path, rotated[i].content)
  /\ UNCHANGED <<ctorVars, nameVars, sizeLimit, pipeVars, fs, clock, compressedFiles, diag, uncaught, nextRec,
                 fails>>

\* ------------------------------------------------------------ the handler
Msg(lvl, msg, about) == [lvl |-> lvl, msg |-> msg, about |-> about]

Done(h, res) == [handlers[h] EXCEPT !.pc = "done", !.res = res, !.at = nextRec]

\* An I/O operation that may be made to fail
Io(ok) ==
  IF ok THEN UNCHANGED fails ELSE fails < MaxFail /\ fails' = fails + 1

\* Mutant of HandlerCatch: the handler has no try/catch, the rejection of
\* stat() leaves the async listener
HandlerRethrows(h) ==
  /\ handlers' = [handlers EXCEPT ![h] = Done(h, "stat_error")]
  /\ uncaught' = uncaught \cup {"rotated"}
  /\ UNCHANGED <<compressedFiles, diag>>

\* The handler's catch (err): console.error, nothing is rethrown
HandlerCatch(h) ==
  /\ handlers' = [handlers EXCEPT ![h] = Done(h, "stat_error")]
  /\ diag' = diag \cup {Msg("error", "Error compressing rotated file", handlers[h].path)}
  /\ UNCHANGED <<compressedFiles, uncaught>>

\* Mutant of AfterCompress: the path is added only when the compression
\* succeeded, a failed one is tried again on the next notification
AfterCompressLedgerOnSuccess(h, res, logged) ==
  /\ handlers' = [handlers EXCEPT ![h] = Done(h, res)]
  /\ compressedFiles' = IF res \in {"unlinked", "unlink_enoent"}
                          THEN compressedFiles \cup {handlers[h].path}
                          ELSE compressedFiles
  /\ diag' = diag \cup logged
  /\ UNCHANGED uncaught

\* compressFile has returned: `compressedFiles.add(rotatedFile)`
AfterCompress(h, res, logged) ==
  /\ handlers' = [handlers EXCEPT ![h] = Done(h, res)]
  /\ compressedFiles' = compressedFiles \cup {handlers[h].path}
  /\ diag' = diag \cup logged
  /\ UNCHANGED uncaught

\* compressFile's catch (error): console.error, then it returns
CompressCatch(h) ==
  AfterCompress(h, "cf_error",
                {Msg("error", "Error compressing file", handlers[h].path)})

\* The handler goes on to its next await
Goto(h, pc) ==
  /\ handlers' = [handlers EXCEPT ![h] = [@ EXCEPT !.pc = pc]]
  /\ UNCHANGED <<compressedFiles, diag, uncaught>>

Running(h, pc) ==
  /\ Enabled /\ Alive
  /\ h \in 1 .. Len(handlers)
  /\ handlers[h].pc = pc

\* `(await stat(rotatedFile)).isFile()`, then the call of compressFile
HStat(h, ok) ==
  /\ Running(h, "stat")
  /\ Io(ok)
  /\ LET f == fs[handlers[h].path] IN
       IF ~ok \/ f.kind = "none"
         THEN HandlerCatch(h)
         ELSE IF f.kind = "file"
           THEN /\ handlers' = [handlers EXCEPT ![h] =
                                  [@ EXCEPT !.pc = "access", !.started = TRUE]]
                /\ UNCHANGED <<compressedFiles, diag, uncaught>>
           ELSE /\ handlers' = [handlers EXCEPT ![h] = Done(h, "not_file")]
                /\ diag' = diag \cup {Msg("warn", "Skipping compression, rotated file is a directory",
                                          handlers[h].path)}
                /\ UNCHANGED <<compressedFiles, uncaught>>
  /\ UNCHANGED <<ctorVars, nameVars, sizeLimit, pipeVars, fs, clock, rotated, nextRec>>

\* fileExists(path): access() resolving; any error counts as "does not exist"
fileExists(path, ok) == ok /\ fs[path].kind # "none"

\* compressFile: `await fileExists(src)`
CFAccess(h, ok) ==
  /\ Running(h, "access")
  /\ Io(ok)
  /\ IF fileExists(handlers[h].path, ok)
       THEN Goto(h, "cfstat")
       ELSE AfterCompress(h, "missing",
              {Msg("warn", "Skipping compression, file does not exist", handlers[h].path)})
  /\ UNCHANGED <<ctorVars, nameVars, sizeLimit, pipeVars, fs, clock, rotated, nextRec>>

\* compressFile: `await stat(src)`, `stats.isDirectory()`, then the pipeline starts
CFStat(h, ok) ==
  /\ Running(h, "cfstat")
  /\ Io(ok)
  /\ LET f == fs[handlers[h].path] IN
       IF ~ok \/ f.kind = "none"
         THEN CompressCatch(h)
         ELSE IF f.kind = "dir"
           THEN AfterCompress(h, "is_dir",
                  {Msg("warn", "Skipping compression, source is a directory",
                       handlers[h].path)})
           ELSE Goto(h, "open")
  /\ UNCHANGED <<ctorVars, nameVars, sizeLimit, pipeVars, fs, clock, rotated, nextRec>>

\* The pipeline's streams open their files: createReadStream(src) reads what
\* the path holds now, createWriteStream(dest) creates or truncates dest. When
\* src cannot be opened the pipeline rejects; dest may already have been opened.
CFPipeOpen(h, ok, destOpened) ==
  /\ Running(h, "open")
  /\ Io(ok)
  /\ LET path == handlers[h].path IN
       /\ fs' = IF destOpened THEN [fs EXCEPT ![GzOf(path)] = EmptyFile] ELSE fs
       /\ IF ok /\ fs[path].kind = "file"
            THEN /\ destOpened
                 /\ handlers' = [handlers EXCEPT ![h] =
                                   [@ EXCEPT !.pc = "pipe", !.snap = fs[path].data]]
                 /\ UNCHANGED <<compressedFiles, diag, uncaught>>
            ELSE CompressCatch(h)
  /\ UNCHANGED <<ctorVars, nameVars, sizeLimit, pipeVars, clock, rotated, nextRec>>

\* Mutant of CFPipeDone: a rejected pipeline is swallowed and compressFile goes
\* on to the check of dest
CFPipeDoneSwallowsError(h, ok, n) ==
  /\ Running(h, "pipe")
  /\ Io(ok)
  /\ n <= Len(handlers[h].snap) + 1
  /\ (ok => n = 0)
  /\ fs' = [fs EXCEPT ![GzOf(handlers[h].path)] =
              IF ok THEN FileOf(Gzip(handlers[h].snap))
              ELSE FileOf(Partial(handlers[h].snap, n))]
  /\ handlers' = [handlers EXCEPT ![h] = [@ EXCEPT !.pc = "dest", !.piped = ok]]
  /\ UNCHANGED <<compressedFiles, diag, uncaught>>
  /\ UNCHANGED <<ctorVars, nameVars, sizeLimit, pipeVars, clock, rotated, nextRec>>

\* `await pipelineAsync(read, gzip, write)` settles: dest holds the whole
\* compressed content, or the pipeline rejects and dest holds what was written
CFPipeDone(h, ok, n) ==
  /\ Running(h, "pipe")
  /\ Io(ok)
  /\ n <= Len(handlers[h].snap) + 1
  /\ LET path == handlers[h].path
         written == Partial(handlers[h].snap, n)
     IN
       IF ok
         THEN /\ n = 0
              /\ fs' = [fs EXCEPT ![GzOf(path)] = FileOf(Gzip(handlers[h].snap))]
              /\ handlers' = [handlers EXCEPT ![h] =
                                [@ EXCEPT !.pc = "dest", !.piped = TRUE]]
              /\ UNCHANGED <<compressedFiles, diag, uncaught>>
         ELSE /\ fs' = [fs EXCEPT ![GzOf(path)] = FileOf(written)]
              /\ CompressCatch(h)
  /\ UNCHANGED <<ctorVars, nameVars, sizeLimit, pipeVars, clock, rotated, nextRec>>

\* compressFile: `if (await fileExists(dest))`
CFDestExists(h, ok) ==
  /\ Running(h, "dest")
  /\ Io(ok)
  /\ IF fileExists(GzOf(handlers[h].path), ok)
       THEN Goto(h, "unlink")
       ELSE AfterCompress(h, "dest_missing",
              {Msg("error", "Compression failed: Destination file not found",
                   GzOf(handlers[h].path))})
  /\ UNCHANGED <<ctorVars, nameVars, sizeLimit, pipeVars, fs, clock, rotated, nextRec>>

\* compressFile: `await unlink(src)`; ENOENT is swallowed, other errors are logged
CFUnlink(h, ok) ==
  /\ Running(h, "unlink")
  /\ Io(ok)
  /\ LET path == handlers[h].path IN
       IF ~ok
         THEN /\ AfterCompress(h, "unlink_error",
                   {Msg("error", "Error unlinking original file", path)})
              /\ UNCHANGED fs
         ELSE IF fs[path].kind = "none"
           THEN /\ AfterCompress(h, "unlink_enoent", {})
                /\ UNCHANGED fs
           ELSE /\ AfterCompress(h, "unlinked", {})
                /\ fs' = [fs EXCEPT ![path] = NoFile]
  /\ UNCHANGED <<ctorVars, nameVars, sizeLimit, pipeVars, clock, rotated, nextRec>>

Next ==
  \/ \E i \in Impls, e \in OptBools, d \in OptDirs, c \in OptBools : Construct(i, e, d, c)
  \/ \E b \in BOOLEAN : Submit(b)
  \/ SourceEnd
  \/ CloseDisabled
  \/ \E ok \in BOOLEAN : RsInit(ok)
  \/ Transform
  \/ \E ok \in BOOLEAN : RsWrite(ok)
  \/ SourceFinish
  \/ PrettyEnd
  \/ \E ok \in BOOLEAN : RsFinal(ok)
  \/ RsDestroyClose
  \/ \E t \in Times : Rotate(t)
  \/ \E i \in 1 .. MaxNotif : DuplicateRotated(i)
  \/ \E h \in 1 .. MaxNotif, ok \in BOOLEAN : HStat(h, ok)
  \/ \E h \in 1 .. MaxNotif, ok \in BOOLEAN : CFAccess(h, ok)
  \/ \E h \in 1 .. MaxNotif, ok \in BOOLEAN : CFStat(h, ok)
  \/ \E h \in 1 .. MaxNotif, ok \in BOOLEAN, d \in BOOLEAN : CFPipeOpen(h, ok, d)
  \/ \E h \in 1 .. MaxNotif, ok \in BOOLEAN, n \in 0 .. MaxRecs + 1 : CFPipeDone(h, ok, n)
  \/ \E h \in 1 .. MaxNotif, ok \in BOOLEAN : CFDestExists(h, ok)
  \/ \E h \in 1 .. MaxNotif, ok \in BOOLEAN : CFUnlink(h, ok)

Spec == Init /\ [][Next]_vars

\* -------------------------------------------------- rotation by size only
\* Runs with a size limit that a few records reach, in which the interval does
\* not elapse and no notification is repeated: every rotation is one by size
SizeInit ==
  /\ ProgramInit
  /\ nameCfg = [impl |-> "part_001", dir |-> "logs", filename |-> "app"]
  /\ named = {}
  /\ sizeLimit \in SizeLimits

SizeNext ==
  \/ \E i \in Impls, e \in OptBools, d \in OptDirs, c \in OptBools : Construct(i, e, d, c)
  \/ \E b \in BOOLEAN : Submit(b)
  \/ SourceEnd
  \/ CloseDisabled
  \/ \E ok \in BOOLEAN : RsInit(ok)
  \/ Transform
  \/ \E ok \in BOOLEAN : RsWrite(ok)
  \/ SourceFinish
  \/ PrettyEnd
  \/ \E ok \in BOOLEAN : RsFinal(ok)
  \/ RsDestroyClose
  \/ \E h \in 1 .. MaxNotif, ok \in BOOLEAN : HStat(h, ok)
  \/ \E h \in 1 .. MaxNotif, ok \in BOOLEAN : CFAccess(h, ok)
  \/ \E h \in 1 .. MaxNotif, ok \in BOOLEAN : CFStat(h, ok)
  \/ \E h \in 1 .. MaxNotif, ok \in BOOLEAN, d \in BOOLEAN : CFPipeOpen(h, ok, d)
  \/ \E h \in 1 .. MaxNotif, ok \in BOOLEAN, n \in 0 .. MaxSized + 1 : CFPipeDone(h, ok, n)
  \/ \E h \in 1 .. MaxNotif, ok \in BOOLEAN : CFDestExists(h, ok)
  \/ \E h \in 1 .. MaxNotif, ok \in BOOLEAN : CFUnlink(h, ok)

SizeSpec == SizeInit /\ [][SizeNext]_vars

\* ----------------------------------------------------------- scheduling
\* The event loop runs every I/O completion and stream event that is pending:
\* the open, the writes and the final close of rotatingStream
Fairness ==
  /\ WF_vars(\E ok \in BOOLEAN : RsInit(ok))
  /\ WF_vars(\E ok \in BOOLEAN : RsWrite(ok))
  /\ WF_vars(\E ok \in BOOLEAN : RsFinal(ok))

FairSpec == Spec /\ Fairness

\* ------------------------------------------------- the file name function
\* The directories, base names and times the file name function is called with
\* (times in seconds after 2024-01-01T00:00:00: two seconds of the first day,
\* two of the second)
NameDirs == {"logs", "var/log"}
NameFiles == {"app", "server"}
NameTimes == {NoTime, 1, 2, 86400, 86401}

\* rotating-file-stream calls the function it was given with (time, index);
\* part_001 hands it `(time) => generator(time, dir, filename)`
GeneratorCall(time, index) ==
  /\ Cardinality(named) < MaxCalls
  /\ named' = named \cup
       {[time |-> time, index |-> index,
         path |-> generator(nameCfg.impl, time, index, nameCfg.dir, nameCfg.filename)]}
  /\ UNCHANGED <<ctorVars, nameCfg, sizeLimit, pipeVars, fs, clock, rotated, compVars, diag, uncaught,
                 nextRec, fails>>

NameInit ==
  /\ ProgramInit
  /\ nameCfg \in [impl : Impls, dir : NameDirs, filename : NameFiles]
  /\ named = {}
  /\ sizeLimit = DefaultSize

NameNext == \E t \in NameTimes, i \in 1 .. MaxIndex : GeneratorCall(t, i)

NameSpec == NameInit /\ [][NameNext]_vars

\* ------------------------------------------------------------------ claims
Handlers == 1 .. Len(handlers)
RotatedPaths == LogPaths \ {Base}
Submitted == 1 .. (nextRec - 1)
UntouchedFs == [p \in AllPaths |-> NoFile]

\* The results with which a handler reports a failed compression
FailureResults == {"stat_error", "cf_error", "dest_missing"}

\* Handler h ends in this step (also one that returns at the ledger check)
Completes(h) ==
  /\ h \in 1 .. Len(handlers')
  /\ handlers'[h].pc = "done"
  /\ (h > Len(handlers) \/ handlers[h].pc # "done")

\* A step of a running handler
HandlerStep == Len(handlers') = Len(handlers) /\ handlers' # handlers

\* The record with this id is in a file on disk, plain or compressed
OnDisk(id) ==
  \E p \in AllPaths :
    /\ fs[p].kind = "file"
    /\ \E i \in 1 .. Len(fs[p].data) :
         fs[p].data[i].id = id /\ fs[p].data[i].t \in {"pretty", "deflated"}

\* C1: compressFile is started at most once for each rotated path, whatever
\* 'rotated' notifications arrive and however their handlers interleave.
C1_CompressionStartedAtMostOnce ==
  \A p \in LogPaths :
    Cardinality({h \in Handlers : handlers[h].path = p /\ handlers[h].started}) <= 1

\* C2: with compress on and no I/O failure, when the handler of a 'rotated'
\* notification for a regular, non-empty file P has ended and no other handler of P is
\* still running, P is gone and P.gz holds the compressed form of the content
\* P had when it was finalized; for every rotation of the run.
C2_EveryRotationEndsCompressed ==
  [][\A h \in 1 .. Len(handlers') :
       ( /\ Completes(h)
         /\ handlers'[h].content # <<>>
         /\ fails' = 0
         /\ \A g \in 1 .. Len(handlers') :
              handlers'[g].path = handlers'[h].path => handlers'[g].pc = "done" )
       => /\ fs'[handlers'[h].path].kind = "none"
          /\ fs'[GzOf(handlers'[h].path)] = FileOf(Gzip(handlers'[h].content))]_vars

\* C3: a rotated file P is removed only by the unlink of a compressFile call
\* whose pipeline into P.gz completed and while P.gz exists, and nothing else
\* changes P: a compression that failed leaves P as it was.
C3_UnlinkOnlyAfterPipeline ==
  [][\A p \in RotatedPaths :
       (fs[p].kind = "file" /\ fs'[p] # fs[p])
       => /\ fs'[p] = NoFile
          /\ fs[GzOf(p)].kind = "file"
          /\ \E h \in Handlers :
               /\ handlers[h].path = p
               /\ handlers[h].pc = "unlink" /\ handlers[h].piped
               /\ handlers'[h].res = "unlinked"]_vars

\* C3 witness: a compression failed inside compressFile and the rotated file
\* still holds the content it was finalized with.
C3_Witness ==
  \E h \in Handlers :
    /\ handlers[h].res = "cf_error"
    /\ handlers[h].content # <<>>
    /\ fs[handlers[h].path] = FileOf(handlers[h].content)

\* C4: once a handler has reported the failure of the compression of P, the
\* file P.gz does not exist.
C4_NoPartialOutput ==
  \A h \in Handlers :
    handlers[h].res \in FailureResults => fs[GzOf(handlers[h].path)].kind = "none"

\* C5: nothing escapes the 'rotated' handler, and no step of a handler (a
\* failing one included) touches the source, prettyStream, rotatingStream,
\* close() or the active file.
C5_CompressionFailureIsContained ==
  [][/\ "rotated" \notin uncaught'
     /\ HandlerStep =>
          /\ src' = src /\ pretty' = pretty /\ rs' = rs
          /\ closeState' = closeState
          /\ fs'[Base] = fs[Base]]_vars

\* C5 witness: a compression failed, and a record submitted after the failure
\* was written to the active file by the still open rotatingStream.
C5_Witness ==
  \E h \in Handlers :
    /\ handlers[h].res \in FailureResults
    /\ rs.state = "open"
    /\ \E i \in 1 .. Len(fs[Base].data) : fs[Base].data[i].id >= handlers[h].at

\* C6: after the rendering of a record has thrown and the error was reported,
\* prettyStream and rotatingStream are not destroyed.
C6_RenderErrorKeepsPipeline ==
  (\E d \in diag : d.about = "render")
  => /\ pretty.state # "destroyed"
     /\ rs.state # "destroyed"

\* C7: when close() has resolved, every record submitted is on disk (checked
\* in the runs without rotation, without I/O failure and without a record
\* whose rendering throws).
C7_SubmittedRecordsOnDisk ==
  ( /\ Enabled /\ closeState = "resolved"
    /\ fails = 0 /\ rotated = <<>> /\ Alive
    /\ rs.err = "none" )
  => \A id \in Submitted : OnDisk(id)

\* C8 (as stated): close() has resolved only when rotatingStream has finished:
\* nothing is buffered in it and the handle is not open.
C8_CloseOnlyAfterFinish ==
  (Enabled /\ closeState = "resolved")
  => rs.state = "finished" /\ rs.buf = <<>> /\ rs.handle # "open"

\* C8 (amended): close() has resolved only when rotatingStream has finished
\* (nothing buffered in it, handle closed) or was destroyed by an error.
C8_CloseAfterFinishOrError ==
  (Enabled /\ closeState = "resolved")
  => \/ rs.state = "finished" /\ rs.buf = <<>> /\ rs.handle = "closed"
     \/ rs.state = "destroyed" /\ rs.err # "none"

\* C8 witness: close() resolved after a record was flushed and the handle closed.
C8_Witness ==
  /\ closeState = "resolved"
  /\ rs.state = "finished" /\ rs.handle = "closed"
  /\ fs[Base].data # <<>>

\* C9: with enabled true (or omitted) and dir missing or empty the constructor
\* has thrown 'Missing required option: dir' and nothing was created: no
\* rotating stream, no handler, no pipeline, no file.
C9_MissingDirFailsEarly ==
  (phase # "init" /\ opts.enabled = "true" /\ opts.dir \in {Omitted, ""})
  => /\ phase = "failed"
     /\ error = MissingDirError
     /\ rs = NoRs /\ src = NoStream /\ pretty = NoStream
     /\ ~registered
     /\ fs = UntouchedFs
     /\ closeState = "idle"

\* C9 witness: the constructor was called with dir '' and threw.
C9_Witness ==
  phase = "failed" /\ opts.enabled = "true" /\ opts.dir = "" /\ error = MissingDirError

\* C10: with enabled false, whatever dir is, the transport is built, there is
\* no rotating stream and no handler, no file is created, written or deleted
\* whatever is submitted, and close() resolves without doing anything.
C10_DisabledTouchesNothing ==
  (phase # "init" /\ opts.enabled = "false")
  => /\ phase = "built" /\ error = ""
     /\ rs = NoRs /\ pretty = NoStream
     /\ ~registered /\ rotated = <<>> /\ handlers = <<>>
     /\ fs = UntouchedFs
     /\ diag = {} /\ uncaught = {}
     /\ closeState \in {"idle", "resolved"}

\* C10 witness: a disabled transport without dir took records and was closed.
C10_Witness ==
  /\ phase = "built" /\ opts.enabled = "false" /\ opts.dir = Omitted
  /\ Len(src.buf) >= 2
  /\ closeState = "resolved"

\* The time bucket of the token a version puts in the name: the second
\* (part_001, `YYYYMMDDhhmmss`) or the day (part_000 and index.ts, `YYYY-MM-DD`)
Bucket(impl, time) == IF impl = "part_001" THEN time ELSE DayOf(time)

\* C11: called with a null time the file name function returns
\* join(dir, filename + '.log'), for every dir and filename and in each version.
C11_NullTimeNamesBaseFile ==
  \A c \in named :
    c.time = NoTime => c.path = join(nameCfg.dir, nameCfg.filename \o ".log")

\* C12: for fixed dir and filename two calls with times in different buckets,
\* or with different indexes in the same bucket, never return the same path.
C12_NamesAreInjective ==
  \A a \in named : \A b \in named :
    ( /\ a.time # NoTime /\ b.time # NoTime
      /\ \/ Bucket(nameCfg.impl, a.time) # Bucket(nameCfg.impl, b.time)
         \/ a.index # b.index )
    => a.path # b.path

\* The ids of the records of a file, in the file's order
Ids(data) == [i \in 1 .. Len(data) |-> data[i].id]

\* The number of records the rotating stream has written to its files
WrittenCount ==
  Len(fs[Base].data)
    + (IF rotated = <<>> THEN 0 ELSE Len(rotated[1].content))
    + (IF Len(rotated) < 2 THEN 0 ELSE Len(rotated[2].content))

\* The record whose write makes the size of the first file exceed the limit,
\* and the one whose write makes it reach or exceed the limit
ExceededAt == CHOOSE n \in 1 .. MaxSized + 2 :
                n * RecSize > sizeLimit /\ (n - 1) * RecSize <= sizeLimit
ReachedAt == CHOOSE n \in 1 .. MaxSized + 2 :
               n * RecSize >= sizeLimit /\ (n - 1) * RecSize < sizeLimit

\* A run by size in which no I/O failed and the stream did not error
SizeRun == Enabled /\ sizeLimit \in SizeLimits /\ fails = 0 /\ rs.err = "none"

\* The first notification carries the path of the finalized file
FirstNotificationNamesFile ==
  /\ rotated[1].path = generator(opts.impl, clock, 1, opts.dir, opts.filename)
  /\ \/ fs[rotated[1].path] = FileOf(rotated[1].content)
     \/ \E h \in Handlers : handlers[h].res = "unlinked"

InProgress(h) == handlers[h].pc # "done"

\* C14: while the handler of a notification for P is at work (stat,
\* compressFile), P is in the ledger compressedFiles.
C14_LedgerClaimedBeforeWork ==
  \A h \in Handlers : InProgress(h) => handlers[h].path \in compressedFiles

\* C15: in every state, for each non-empty file that was rotated, the file
\* still holds the content it was finalized with or its .gz holds the whole
\* compressed content.
C15_OriginalOrCompleteGz ==
  \A i \in 1 .. Len(rotated) :
    rotated[i].content # <<>>
    => \/ fs[rotated[i].path] = FileOf(rotated[i].content)
       \/ fs[GzOf(rotated[i].path)] = FileOf(Gzip(rotated[i].content))

\* The handler found no regular file at the path: it was missing or a directory
FoundNoFile(h) ==
  /\ fails = 0
  /\ handlers[h].res \in {"stat_error", "missing", "not_file", "is_dir"}

\* C16: a handler that found its path missing or a directory has logged a
\* warning about the path, and no error.
C16_MissingPathIsOnlyAWarning ==
  \A h \in Handlers :
    FoundNoFile(h)
    => /\ \E d \in diag : d.lvl = "warn" /\ d.about = handlers[h].path
       /\ \A d \in diag : d.about = handlers[h].path => d.lvl # "error"

\* What the callback of pipeline() has logged
TransportLog == {d \in diag : d.msg = TransportError}

\* The report of a file system error of rotatingStream
FsReport == [lvl |-> "error", msg |-> TransportError, about |-> "fs"]

\* C17: the step in which rotatingStream gets a file system error reports it
\* once through the callback of pipeline(), throws nothing, destroys the stream
\* and drops what it had buffered (no retry); from then on nothing more is
\* reported or thrown and no record is written to the active file.
C17_FsErrorIsFatalAndReportedOnce ==
  [][/\ (rs.err # "fs" /\ rs'.err = "fs")
        => /\ TransportLog' = TransportLog \cup {FsReport}
           /\ FsReport \notin TransportLog
           /\ uncaught' = uncaught
           /\ rs'.state = "destroyed" /\ rs'.buf = <<>>
     /\ rs.err = "fs"
        => /\ TransportLog' = TransportLog
           /\ uncaught' = uncaught
           /\ rs'.err = "fs" /\ rs'.state = "destroyed" /\ rs'.buf = <<>>
           /\ fs'[Base] = fs[Base]]_vars

\* C17 witness: a write was rejected after a record had been written, with a
\* later record still on its way: the error is reported, the record is dropped.
C17_Witness ==
  /\ Enabled /\ rs.err = "fs" /\ FsReport \in diag
  /\ Len(fs[Base].data) = 1
  /\ nextRec = 3 /\ src.buf = <<>> /\ pretty.buf = <<>> /\ rs.buf = <<>>

\* C18: a close() that is pending eventually resolves, whether rotatingStream
\* finishes or errors (its handle failing to close included).
C18_CloseEventuallyResolves ==
  (closeState = "pending") ~> (closeState = "resolved")

\* C18 witness: close() was called at the end of the source, the stream then
\* failed (a rejected write or close of the handle), and close() has resolved.
C18_Witness ==
  /\ Enabled /\ src.state = "closed"
  /\ rs.state = "destroyed" /\ rs.err = "fs"
  /\ closeState = "resolved"

\* C19: once rotatingStream has finished, close() has resolved, also while
\* compressions started by earlier 'rotated' events are still running.
C19_CloseDoesNotAwaitCompression ==
  (Enabled /\ rs.state = "finished") => closeState = "resolved"

\* C19 witness: close() has resolved and the compression of a non-empty
\* rotated file is in progress.
C19_Witness ==
  /\ Enabled /\ rs.state = "finished" /\ closeState = "resolved"
  /\ \E h \in Handlers :
       /\ handlers[h].started /\ InProgress(h)
       /\ handlers[h].content # <<>>

CompressReturned ==
  {handlers[h].path : h \in {k \in Handlers : handlers[k].started /\ handlers[k].pc = "done"}}

\* The results of a handler that ended without calling compressFile: stat threw
\* or the path is not a regular file
NotCompressedResults == {"stat_error", "not_file"}

\* C22: the ledger holds exactly the paths for which a compressFile call has
\* returned, with whatever outcome; the step of a handler whose stat threw or
\* whose path is not a regular file adds nothing, a notification for a path in
\* the ledger starts no compression, and no entry is ever removed.
C22_LedgerIsReturnedCompressions ==
  [][ /\ compressedFiles' = CompressReturned'
      /\ compressedFiles \subseteq compressedFiles'
      /\ \A h \in 1 .. Len(handlers') :
           /\ (Completes(h) /\ handlers'[h].res \in NotCompressedResults)
                => compressedFiles' = compressedFiles
           /\ (h > Len(handlers) /\ handlers'[h].path \in compressedFiles)
                => handlers'[h].pc = "done" /\ ~handlers'[h].started ]_vars

\* C22 witness: a compression failed inside compressFile, its path is in the
\* ledger, and a later notification for the path was skipped.
C22_Witness ==
  /\ Len(handlers) = 2
  /\ handlers[1].started /\ handlers[1].res \in {"cf_error", "dest_missing"}
  /\ handlers[1].path \in compressedFiles
  /\ handlers[2].path = handlers[1].path
  /\ handlers[2].res = "skipped" /\ ~handlers[2].started

\* The ids of the records in a sequence of written records
IdSet(data) == {data[i].id : i \in 1 .. Len(data)}

\* The ids increase along the sequence: no record twice, none out of order
Increasing(data) ==
  \A i, j \in 1 .. Len(data) : i < j => data[i].id < data[j].id

\* The records rotatingStream has written: those of the files it finalized and
\* those of the active file
WrittenIds ==
  IdSet(fs[Base].data) \cup UNION {IdSet(rotated[i].content) : i \in 1 .. Len(rotated)}

\* What was written is in submission order, once each, and every record is
\* whole in one file: a finalized file holds only records older than those of
\* the files finalized after it and of the active file
WrittenInOrder ==
  /\ Increasing(fs[Base].data)
  /\ \A i \in 1 .. Len(rotated) :
       /\ Increasing(rotated[i].content)
       /\ \A a \in IdSet(rotated[i].content), b \in IdSet(fs[Base].data) : a < b
       /\ \A j \in 1 .. Len(rotated) :
            (i < j /\ rotated[i] # rotated[j])
            => \A a \in IdSet(rotated[i].content), b \in IdSet(rotated[j].content) : a < b
  /\ \A id \in WrittenIds : \A older \in 1 .. id : older \in WrittenIds

\* C21: the records are written in the order of submission, each exactly once
\* and whole in one file, and none is dropped: when rotatingStream has finished
\* without an error, with no I/O failure and no record whose rendering throws,
\* every record submitted has been written.
C21_RecordsWrittenOnceInOrder ==
  Enabled =>
    /\ WrittenInOrder
    /\ (Alive /\ fails = 0 /\ rs.state = "finished" /\ rs.err = "none")
         => WrittenIds = Submitted
====
